---------------------------- MODULE Spec2Model ----------------------------
(***************************************************************************)
(* Graph persistence and query layer of NetInfra-KG                        *)
(* (src/kg/database.py, src/kg/models.py).                                 *)
(*                                                                         *)
(* The store is a labelled property graph: nodes carry a label set and a   *)
(* flat property map, relationships are directed, typed and attached to    *)
(* node identities.  Every public method of Neo4jKnowledgeGraph is one     *)
(* action (clear_database, which runs two statements, is two steps); what   *)
(* the method returned or raised is recorded in `last`.                    *)
(* The connection handle of the store and a model object in the hands of   *)
(* a caller (construction, assignment, the JSON accessors) are state too;  *)
(* the facade of src/kg/llm_interface.py is modelled where it reads the    *)
(* statistics.                                                             *)
(***************************************************************************)
EXTENDS Integers, Sequences, FiniteSets, TLC

VARIABLES
    nodes,        \* stored nodes: [nid, labels, props]
    edges,        \* stored relationships: [eid, src, tgt, kind, props]
    constraints,  \* labels whose id property carries a uniqueness constraint
    pc,           \* "idle", or "clear_nodes" between clear_database's statements
    last,         \* the last call: [op, args, kind, ret]
    indexes,      \* names of the indexes the store holds
    driver,       \* the connection handle and its use:
                  \* [state, validated, attempts, closes, entered]
    obj,          \* a model object held by the caller, PyNone before one is built
    wrote,        \* history: a create call has succeeded since construction
    session,      \* the sessions of the driver: [open, phase], open the number
                  \* of sessions not closed, phase "idle" or "body" inside a
                  \* with-block
    clients       \* the create_entity call of each concurrent caller:
                  \* [phase, entity, ret, overlap, guarded]

vars ==
    <<nodes, edges, constraints, pc, last, indexes, driver, obj, wrote, session, clients>>

\* What the methods of the store leave alone: the handle, the caller's object,
\* the calls of the concurrent callers and, for a method that runs as one step,
\* the sessions (it closes the one it opened)
held == <<driver, obj, session, clients>>

---------------------------------------------------------------------------
(* Bounds of the model *)

MaxNodes == 3
MaxEdges == 2
MaxTopoEdges == 3
MaxCloses == 3

\* The most entities and relationships generate_full_topology returns
MaxLoadEntities == 2
MaxLoadRelationships == 2

---------------------------------------------------------------------------
(* Python values.  A value carries its runtime type, which is what the     *)
(* isinstance tests of the code and the property encoder of the store look *)
(* at.                                                                     *)

PyNone == [t |-> "none"]
PyStr(s) == [t |-> "str", v |-> s]
PyInt(i) == [t |-> "int", v |-> i]
PyList(q) == [t |-> "list", v |-> q]
PyDict(d) == [t |-> "dict", v |-> d]
PyBool(b) == [t |-> "bool", v |-> b]
PyTuple(q) == [t |-> "tuple", v |-> q]
PyDateTime(y, mo, d, h, mi, s, us) == [t |-> "datetime", v |-> <<y, mo, d, h, mi, s, us>>]

DigitChar(d) ==
    CASE d = 0 -> "0" [] d = 1 -> "1" [] d = 2 -> "2" [] d = 3 -> "3" [] d = 4 -> "4"
      [] d = 5 -> "5" [] d = 6 -> "6" [] d = 7 -> "7" [] d = 8 -> "8" [] d = 9 -> "9"

RECURSIVE Pad(_, _)
\* n written in decimal on w digits, zero padded
Pad(n, w) == IF w = 0 THEN "" ELSE Pad(n \div 10, w - 1) \o DigitChar(n % 10)

\* datetime.isoformat(): the microseconds are written only when not zero
IsoFormat(dt) ==
    LET f == dt.v
    IN  PyStr(Pad(f[1], 4) \o "-" \o Pad(f[2], 2) \o "-" \o Pad(f[3], 2) \o "T"
            \o Pad(f[4], 2) \o ":" \o Pad(f[5], 2) \o ":" \o Pad(f[6], 2)
            \o (IF f[7] = 0 THEN "" ELSE "." \o Pad(f[7], 6)))

---------------------------------------------------------------------------
(* Entity and relationship model (src/kg/models.py) *)

EntityType ==
    {"NetworkSwitch", "NetworkPort", "VLAN", "Server", "VirtualMachine",
     "KubernetesPod", "Container"}

\* The members of the enumeration RelationshipType
RelationshipType ==
    {"CONNECTED_TO", "BELONGS_TO", "PART_OF", "HOSTS", "RUNS_ON", "CONTAINS",
     "DEPLOYED_ON"}

\* The fields every entity has, with their defaults
BaseEntity(id, name, type, created_at, updated_at) ==
    [id |-> PyStr(id), name |-> PyStr(name), type |-> PyStr(type),
     created_at |-> created_at, updated_at |-> updated_at,
     properties_json |-> PyStr("{}"), neo4j_labels |-> PyList(<<>>)]

\* f extended by the fields of g
Extend(f, g) ==
    [k \in DOMAIN f \cup DOMAIN g |-> IF k \in DOMAIN g THEN g[k] ELSE f[k]]

Server(id, name, hostname, ip_address, cpu_cores, created_at, updated_at) ==
    Extend(BaseEntity(id, name, "Server", created_at, updated_at),
           [hostname |-> PyStr(hostname), ip_address |-> ip_address,
            cpu_cores |-> cpu_cores])

VirtualMachine(id, name, hostname, ip_address, cpu_cores, created_at, updated_at) ==
    Extend(BaseEntity(id, name, "VirtualMachine", created_at, updated_at),
           [hostname |-> PyStr(hostname), ip_address |-> ip_address,
            cpu_cores |-> cpu_cores])

VLAN(id, name, vlan_id, subnet, created_at, updated_at) ==
    Extend(BaseEntity(id, name, "VLAN", created_at, updated_at),
           [vlan_id |-> PyInt(vlan_id), subnet |-> subnet])

KubernetesPod(id, name, namespace, created_at, updated_at) ==
    Extend(BaseEntity(id, name, "KubernetesPod", created_at, updated_at),
           [namespace |-> PyStr(namespace), k8s_labels_json |-> PyStr("{}"),
            annotations_json |-> PyStr("{}")])

NetworkSwitch(id, name, port_count, created_at, updated_at) ==
    Extend(BaseEntity(id, name, "NetworkSwitch", created_at, updated_at),
           [model |-> PyNone, vendor |-> PyNone, ip_address |-> PyNone,
            mac_address |-> PyNone, port_count |-> port_count, location |-> PyNone])

Container(id, name, image, created_at, updated_at) ==
    Extend(BaseEntity(id, name, "Container", created_at, updated_at),
           [image |-> PyStr(image), ports |-> PyList(<<>>),
            environment_vars_json |-> PyStr("{}")])

Relationship(source_id, target_id, relationship_type, created_at) ==
    [source_id |-> PyStr(source_id), target_id |-> PyStr(target_id),
     relationship_type |-> PyStr(relationship_type),
     properties_json |-> PyStr("{}"), created_at |-> created_at]

---------------------------------------------------------------------------
(* Inputs *)

T0 == PyDateTime(2023, 1, 15, 10, 30, 0, 0)
T1 == PyDateTime(2024, 12, 5, 9, 7, 3, 250)

S1 == Server("S1", "web", "web-01", PyNone, PyInt(8), T0, T0)
S1b == Server("S1", "db", "db-01", PyStr("10.0.0.1"), PyNone, T1, T1)
S1vm == VirtualMachine("S1", "web", "web-01", PyNone, PyInt(8), T0, T0)
V1 == VirtualMachine("V1", "vm", "vm-01", PyStr("10.0.0.2"), PyInt(2), T0, T1)
S2 == Server("S2", "db", "db-02", PyNone, PyNone, T1, T1)

Entities == {S1, S1b, S1vm, V1, S2}
EntityIds == {"S1", "V1", "S2"}

Relationships ==
    {Relationship("S1", "V1", "HOSTS", T0),
     Relationship("V1", "S1", "RUNS_ON", T1),
     Relationship("V1", "S2", "RUNS_ON", T0),
     Relationship("S2", "S2", "CONNECTED_TO", T0),
     Relationship("S1", "V1", "NOT A TYPE", T0)}

---------------------------------------------------------------------------
(* The storage engine: what the statements of the code do to the graph *)

\* The labels setup_constraints_and_indexes declares a uniqueness constraint for
ConstraintLabels == {"Entity"} \cup EntityType

\* MATCH (e:Entity {id: $id})
MatchEntity(N, id) ==
    {n \in N : "Entity" \in n.labels /\ "id" \in DOMAIN n.props /\ n.props.id = PyStr(id)}

\* The i-th node created with this id gets the identity <<id, i>>
NewNid(N, idv) == <<idv.v, Cardinality({n \in N : n.nid[1] = idv.v}) + 1>>

\* A property value the store accepts: a primitive or an array of primitives
Storable(v) == v.t \in {"str", "int", "list", "datetime"}

\* SET e = $properties: a null value sets no property
SetProperties(d) == [k \in {k \in DOMAIN d : d[k].t # "none"} |-> d[k]]

\* A node with these labels and this id would break an installed constraint
ViolatesConstraint(N, C, labels, d) ==
    \E L \in labels \cap C :
        \E n \in N : /\ L \in n.labels
                     /\ "id" \in DOMAIN n.props /\ "id" \in DOMAIN d
                     /\ n.props.id = d.id

\* Two nodes with label L have the same id
HasDuplicate(N, L) ==
    \E n1, n2 \in N : /\ n1 # n2
                      /\ L \in n1.labels /\ L \in n2.labels
                      /\ n1.props.id = n2.props.id

---------------------------------------------------------------------------
(* Operations of Neo4jKnowledgeGraph *)

Returned(op, args, kind, ret) == [op |-> op, args |-> args, kind |-> kind, ret |-> ret]

\* CREATE CONSTRAINT ... IF NOT EXISTS, one statement per label; a statement the
\* store refuses (the data already breaks the constraint) is only a warning
ConstraintsAfterSetup(N, C) ==
    C \cup {L \in ConstraintLabels : ~HasDuplicate(N, L)}

\* The indexes setup_constraints_and_indexes declares
IndexNames ==
    {"entity_name", "entity_type", "vlan_vlan_id", "server_hostname", "vm_hostname",
     "pod_namespace", "container_image"}

\* CREATE INDEX ... IF NOT EXISTS, one statement per index
IndexesAfterSetup(I) == I \cup IndexNames

\* The constraint statements the store refuses: the label has no constraint yet
\* and two stored nodes with it have the same id
Refused(N, C) == {L \in ConstraintLabels \ C : HasDuplicate(N, L)}

\* A refused statement ends the method with the error of the store
SetupResultFatal(refused, again) ==
    IF refused = {}
    THEN Extend(Returned("setup_constraints_and_indexes", <<>>, "none", PyNone),
                [again |-> again])
    ELSE Extend(Returned("setup_constraints_and_indexes", <<>>, "raise",
                         PyStr("ClientError")), [again |-> again])

\* Each statement runs in its own try block: a refused one prints a warning and
\* the method returns None.  again records that the call before was a run of the
\* schema setup as well.
SetupResult(refused, again) ==
    Extend(Returned("setup_constraints_and_indexes", <<>>, "none", PyNone),
           [again |-> again])

SetupConstraintsAndIndexes ==
    /\ pc = "idle"
    /\ constraints' = ConstraintsAfterSetup(nodes, constraints)
    /\ indexes' = IndexesAfterSetup(indexes)
    /\ last' = SetupResult(Refused(nodes, constraints),
                           last.op = "setup_constraints_and_indexes")
    /\ UNCHANGED <<nodes, edges, pc, wrote, held>>

\* entity.dict() with created_at converted only
EntityDictCreatedOnly(entity) ==
    LET iso == [entity EXCEPT !.created_at = IsoFormat(@)]
    IN  [k \in {k \in DOMAIN iso : iso[k].t # "dict"} |-> iso[k]]

\* entity.dict() with the timestamps converted and the dict fields kept
EntityDictKeepingMaps(entity) ==
    [entity EXCEPT !.created_at = IsoFormat(@), !.updated_at = IsoFormat(@)]

\* entity.dict() with the timestamps converted and the dict fields removed
EntityDict(entity) ==
    LET iso == [entity EXCEPT !.created_at = IsoFormat(@), !.updated_at = IsoFormat(@)]
    IN  [k \in {k \in DOMAIN iso : iso[k].t # "dict"} |-> iso[k]]

\* The node gets the label of its kind only
EntityLabelsKindOnly(entity) == {entity.type.v}

EntityLabels(entity) == {"Entity", entity.type.v}

\* The CREATE statement is accepted whatever the store already holds
CreateEntityAcceptedUnchecked(N, C, entity) ==
    \A k \in DOMAIN EntityDict(entity) :
        EntityDict(entity)[k].t = "none" \/ Storable(EntityDict(entity)[k])

\* The CREATE statement of create_entity succeeds
CreateEntityAccepted(N, C, entity) ==
    LET d == EntityDict(entity)
    IN  /\ ~ViolatesConstraint(N, C, EntityLabels(entity), d)
        /\ \A k \in DOMAIN d : d[k].t = "none" \/ Storable(d[k])

NewNode(N, entity) ==
    [nid |-> NewNid(N, entity.id), labels |-> EntityLabels(entity),
     props |-> SetProperties(EntityDict(entity))]

CreateEntity(entity) ==
    /\ pc = "idle"
    /\ IF CreateEntityAccepted(nodes, constraints, entity)
       THEN /\ Cardinality(nodes) < MaxNodes
            /\ nodes' = nodes \cup {NewNode(nodes, entity)}
            /\ wrote' = TRUE
            /\ last' = Returned("create_entity", <<entity>>, "bool", TRUE)
       ELSE /\ nodes' = nodes
            /\ wrote' = wrote
            /\ last' = Returned("create_entity", <<entity>>, "bool", FALSE)
    /\ UNCHANGED <<edges, constraints, pc, indexes, held>>

\* relationship.dict() with the timestamp converted and the dict fields removed,
\* the three structural fields kept
RelPropertiesUnfiltered(relationship) ==
    LET iso == [relationship EXCEPT !.created_at = IsoFormat(@)]
    IN  [k \in {k \in DOMAIN iso : iso[k].t # "dict"} |-> iso[k]]

\* relationship.dict() with the timestamp converted, the dict fields removed and
\* the three structural fields left out
RelProperties(relationship) ==
    LET iso == [relationship EXCEPT !.created_at = IsoFormat(@)]
    IN  [k \in {k \in DOMAIN iso : iso[k].t # "dict"}
               \ {"source_id", "target_id", "relationship_type"} |-> iso[k]]

\* Names that cannot stand as a relationship type in the text of a statement
MalformedTypeNames == {"NOT A TYPE", ""}

IsCypherName(s) == s \notin MalformedTypeNames

\* An endpoint that matches no node is stood in for by a node that is not stored
PlaceholderNode(id) == [nid |-> <<id, 0>>, labels |-> {"Entity"}, props |-> [id |-> PyStr(id)]]

EndpointRowsOptional(N, source_id, target_id) ==
    (IF MatchEntity(N, source_id) = {} THEN {PlaceholderNode(source_id)}
     ELSE MatchEntity(N, source_id))
    \X (IF MatchEntity(N, target_id) = {} THEN {PlaceholderNode(target_id)}
        ELSE MatchEntity(N, target_id))

\* One row per pair of matched endpoints:
\* MATCH (source:Entity {id: $source_id}) MATCH (target:Entity {id: $target_id})
EndpointRows(N, source_id, target_id) ==
    MatchEntity(N, source_id) \X MatchEntity(N, target_id)

\* CREATE (source)-[r:TYPE]->(target) SET r = $properties, for one row; parallel
\* relationships are told apart by the last component of the identity
NewEdge(E, row, kind, props) ==
    LET s == row[1].nid
        t == row[2].nid
    IN  [eid |-> <<s, t, kind,
                   Cardinality({e \in E : e.src = s /\ e.tgt = t /\ e.kind = kind}) + 1>>,
         src |-> s, tgt |-> t, kind |-> kind, props |-> SetProperties(props)]

\* The statement of create_relationship runs without an error
CreateRelationshipAccepted(relationship) ==
    LET p == RelProperties(relationship)
    IN  /\ IsCypherName(relationship.relationship_type.v)
        /\ \A k \in DOMAIN p : p[k].t = "none" \/ Storable(p[k])

CreateRelationship(relationship, maxEdges) ==
    LET rows == EndpointRows(nodes, relationship.source_id.v, relationship.target_id.v)
    IN  /\ pc = "idle"
        /\ IF CreateRelationshipAccepted(relationship) /\ rows # {}
           THEN /\ Cardinality(edges) + Cardinality(rows) <= maxEdges
                /\ edges' = edges \cup
                       {NewEdge(edges, row, relationship.relationship_type.v,
                                RelProperties(relationship)) : row \in rows}
                /\ wrote' = TRUE
                /\ last' = Returned("create_relationship", <<relationship>>, "bool", TRUE)
           ELSE /\ edges' = edges
                /\ wrote' = wrote
                /\ last' = Returned("create_relationship", <<relationship>>, "bool", FALSE)
        /\ UNCHANGED <<nodes, constraints, pc, indexes, held>>

\* result.single() of get_entity: no record is None, several records give one of them
GetEntity(entity_id) ==
    LET found == MatchEntity(nodes, entity_id)
    IN  /\ pc = "idle"
        /\ IF found = {}
           THEN last' = Returned("get_entity", <<entity_id>>, "none", PyNone)
           ELSE \E n \in found :
                    last' = Returned("get_entity", <<entity_id>>, "dict", n.props)
        /\ UNCHANGED <<nodes, edges, constraints, pc, indexes, wrote, held>>

\* The first statement of clear_database deletes nothing
DeleteNoRelationships(E) == E

\* MATCH ()-[r]->() DELETE r
DeleteAllRelationships(E) == {}

\* The second statement of clear_database deletes nothing
DeleteNoNodes(N, E) == N

\* MATCH (n) DELETE n: the store refuses to delete a node that still has relationships
DeleteAllNodes(N, E) == IF E = {} THEN {} ELSE N

ClearDatabaseRelationships ==
    /\ pc = "idle"
    /\ edges' = DeleteAllRelationships(edges)
    /\ pc' = "clear_nodes"
    /\ last' = Returned("clear_database", <<>>, "running", PyNone)
    /\ UNCHANGED <<nodes, constraints, indexes, wrote, held>>

ClearDatabaseNodes ==
    /\ pc = "clear_nodes"
    /\ nodes' = DeleteAllNodes(nodes, edges)
    /\ pc' = "idle"
    /\ last' = IF edges = {}
               THEN Returned("clear_database", <<>>, "none", PyNone)
               ELSE Returned("clear_database", <<>>, "raise", PyStr("ConstraintError"))
    /\ UNCHANGED <<edges, constraints, indexes, wrote, held>>

\* The relationships a node is an end of, in either direction: (a)-[r]-(b)
Incident(E, nid) == {e \in E : e.src = nid \/ e.tgt = nid}

OtherEnd(e, nid) == IF e.src = nid THEN e.tgt ELSE e.src

RECURSIVE PathsFrom(_, _, _)
\* The paths of k relationships that start at a node and use no relationship twice
PathsFrom(E, nid, k) ==
    IF k = 0 THEN {[nodes |-> <<nid>>, rels |-> <<>>]}
    ELSE {[nodes |-> Append(p.nodes, OtherEnd(e, p.nodes[Len(p.nodes)])),
           rels |-> Append(p.rels, e)] :
            <<p, e>> \in {<<q, f>> \in PathsFrom(E, nid, k - 1) \X E :
                            /\ f \in Incident(E, q.nodes[Len(q.nodes)])
                            /\ \A i \in 1..Len(q.rels) : q.rels[i] # f}}

PathsBetween(E, s, t, k) == {p \in PathsFrom(E, s, k) : p.nodes[Len(p.nodes)] = t}

\* Every path between the two nodes, of any length
AnyPaths(E, s, t) == UNION {PathsBetween(E, s, t, k) : k \in 1..Cardinality(E)}

\* shortestPath((start)-[*]-(end)): the paths with the fewest relationships
ShortestPaths(E, s, t) ==
    LET lengths == {k \in 1..Cardinality(E) : PathsBetween(E, s, t, k) # {}}
    IN  IF lengths = {} THEN {}
        ELSE PathsBetween(E, s, t, CHOOSE k \in lengths : \A j \in lengths : k <= j)

\* A property of a node, null when the node has none of that name
Prop(n, k) == IF k \in DOMAIN n.props THEN n.props[k] ELSE PyNone

NodeOf(N, nid) == CHOOSE n \in N : n.nid = nid

\* [node in nodes(path) | {id, name, type}], [rel in relationships(path) | type(rel)]
PathRecord(N, p) ==
    [nodes |-> [i \in 1..Len(p.nodes) |->
                  LET n == NodeOf(N, p.nodes[i])
                  IN  [id |-> Prop(n, "id"), name |-> Prop(n, "name"),
                       type |-> Prop(n, "type")]],
     relationships |-> [i \in 1..Len(p.rels) |-> p.rels[i].kind]]

\* The rows of the statement of get_topology_path, one for each pair of different
\* matched end nodes that a path joins
PathRows(N, E, start_id, end_id) ==
    UNION {{PathRecord(N, p) : p \in ShortestPaths(E, st[1].nid, st[2].nid)} :
             st \in {r \in MatchEntity(N, start_id) \X MatchEntity(N, end_id) :
                       r[1] # r[2]}}

\* The end of get_topology_path without its test of the record
PathResultUnguarded(op, args, rows) ==
    IF rows = {} THEN {Returned(op, args, "raise", PyStr("TypeError"))}
    ELSE {Returned(op, args, "dict", r) : r \in rows}

\* The end of get_topology_path: the record as a dict, or [] when there is none
PathResult(op, args, rows) ==
    IF rows = {} THEN {Returned(op, args, "list", <<>>)}
    ELSE {Returned(op, args, "dict", r) : r \in rows}

\* shortestPath on a row whose start node is its end node: the store raises, or,
\* configured not to, skips the row
GetTopologyPath(start_id, end_id) ==
    LET args == <<start_id, end_id>>
        common == MatchEntity(nodes, start_id) \cap MatchEntity(nodes, end_id)
    IN  /\ pc = "idle"
        /\ \/ /\ common # {}
              /\ last' = Returned("get_topology_path", args, "raise", PyStr("ClientError"))
           \/ last' \in PathResult("get_topology_path", args,
                                   PathRows(nodes, edges, start_id, end_id))
        /\ UNCHANGED <<nodes, edges, constraints, pc, indexes, wrote, held>>

\* if relationship_types: None and the empty list both take the branch without
\* a filter
HasFilter(relationship_types) ==
    relationship_types.t = "list" /\ Len(relationship_types.v) > 0

\* The rows of the statement of get_entity_neighbors:
\* MATCH (e:Entity {id: $entity_id})-[r:A|B]-(neighbor:Entity)
NeighborRows(N, E, entity_id, relationship_types) ==
    {row \in MatchEntity(N, entity_id) \X E \X N :
        /\ row[2] \in Incident(E, row[1].nid)
        /\ row[3].nid = OtherEnd(row[2], row[1].nid)
        /\ "Entity" \in row[3].labels
        /\ HasFilter(relationship_types) =>
              \E i \in 1..Len(relationship_types.v) :
                  relationship_types.v[i] = row[2].kind}

\* dict(record['neighbor']) with the key relationship_type added
NeighborData(row) ==
    Extend(row[3].props, [relationship_type |-> PyStr(row[2].kind)])

\* The returned list, whose order the store decides, as the bag of its items
NeighborList(rows) ==
    [d \in {NeighborData(row) : row \in rows} |->
        Cardinality({row \in rows : NeighborData(row) = d})]

GetEntityNeighbors(entity_id, relationship_types) ==
    LET args == <<entity_id, relationship_types>>
    IN  /\ pc = "idle"
        /\ IF /\ HasFilter(relationship_types)
              /\ \E i \in 1..Len(relationship_types.v) :
                     ~IsCypherName(relationship_types.v[i])
           THEN last' = Returned("get_entity_neighbors", args, "raise",
                                 PyStr("CypherSyntaxError"))
           ELSE last' = Returned("get_entity_neighbors", args, "list",
                                 NeighborList(NeighborRows(nodes, edges, entity_id,
                                                           relationship_types)))
        /\ UNCHANGED <<nodes, edges, constraints, pc, indexes, wrote, held>>

---------------------------------------------------------------------------
(* Text.  The store compares strings character by character, so the strings  *)
(* the searches look at are built from their characters.                     *)

RECURSIVE Join(_)
\* The string whose characters are q
Join(q) == IF q = <<>> THEN "" ELSE q[1] \o Join(Tail(q))

Texts ==
    {<<>>,
     <<"p", "r", "o", "d">>,
     <<"P", "r", "o", "d">>,
     <<"w", "e", "b">>,
     <<"1", "0", ".">>,
     <<"z", "z">>,
     <<"V", "L", "A", "N", "-", "P", "r", "o", "d", "u", "c", "t", "i", "o", "n">>,
     <<"w", "e", "b", "-", "v", "m">>,
     <<"d", "b">>,
     <<"p", "r", "o", "d", "-", "0", "1">>,
     <<"d", "b", "-", "0", "2">>,
     <<"v", "m", "-", "0", "1">>,
     <<"1", "0", ".", "0", ".", "0", ".", "1">>,
     <<"1", "0", ".", "0", ".", "0", ".", "0", "/", "2", "4">>}

\* The characters of a string
Chars(s) == CHOOSE q \in Texts : Join(q) = s

\* s CONTAINS t: t occurs in s as a run of characters, compared exactly
Contains(s, t) ==
    LET a == Chars(s)
        b == Chars(t)
    IN  \E i \in 0..(Len(a) - Len(b)) : SubSeq(a, i + 1, i + Len(b)) = b

---------------------------------------------------------------------------
(* The read operations of Neo4jKnowledgeGraph and the facade over them *)

\* MATCH (e:Label): the stored nodes that carry the label
MatchLabel(N, label) == {n \in N : label \in n.labels}

\* The list of dict(record['e']), whose order the store decides, as the bag of
\* its items
EntityList(N) ==
    [d \in {n.props : n \in N} |-> Cardinality({n \in N : n.props = d})]

\* The three counts get_statistics returns
Statistics(N, E) ==
    [total_entities |-> PyInt(Cardinality(MatchLabel(N, "Entity"))),
     total_relationships |-> PyInt(Cardinality(E)),
     entity_counts |-> [t \in EntityType |-> PyInt(Cardinality(MatchLabel(N, t)))]]

GetStatistics ==
    /\ pc = "idle"
    /\ last' = Returned("get_statistics", <<>>, "dict", Statistics(nodes, edges))
    /\ UNCHANGED <<nodes, edges, constraints, pc, indexes, wrote, held>>

\* The summary get_topology_summary builds from the statistics
TopologySummary(stats, now) ==
    [infrastructure_overview |->
        [total_entities |-> stats.total_entities,
         total_relationships |-> stats.total_relationships,
         entity_breakdown |-> stats.entity_counts,
         relationship_breakdown |-> stats.relationship_counts],
     topology_layers |->
        [network_layer |->
            [switches |-> stats.entity_counts["NetworkSwitch"],
             ports |-> stats.entity_counts["NetworkPort"],
             vlans |-> stats.entity_counts["VLAN"]],
         compute_layer |->
            [servers |-> stats.entity_counts["Server"],
             virtual_machines |-> stats.entity_counts["VirtualMachine"]],
         container_layer |->
            [kubernetes_pods |-> stats.entity_counts["KubernetesPod"],
             containers |-> stats.entity_counts["Container"]]],
     generated_at |-> IsoFormat(now)]

\* KnowledgeGraphLLMInterface.get_topology_summary: a key the statistics do not
\* have raises KeyError while the summary is built
GetTopologySummary(now) ==
    LET stats == Statistics(nodes, edges)
        read == {"total_entities", "total_relationships", "entity_counts",
                 "relationship_counts"}
    IN  /\ pc = "idle"
        /\ last' = IF read \subseteq DOMAIN stats
                   THEN Returned("get_topology_summary", <<>>, "dict",
                                 TopologySummary(stats, now))
                   ELSE Returned("get_topology_summary", <<>>, "raise", PyStr("KeyError"))
        /\ UNCHANGED <<nodes, edges, constraints, pc, indexes, wrote, held>>

\* The rows of the statement of search_entities: the name is the only property
\* compared, with or without the filter on the labels
SearchRows(N, search_term, entity_types) ==
    {n \in MatchLabel(N, "Entity") :
        /\ "name" \in DOMAIN n.props
        /\ Contains(n.props.name.v, search_term)
        /\ HasFilter(entity_types) =>
              \E i \in 1..Len(entity_types.v) : entity_types.v[i] \in n.labels}

SearchEntities(search_term, entity_types) ==
    /\ pc = "idle"
    /\ last' = Returned("search_entities", <<search_term, entity_types>>, "list",
                        EntityList(SearchRows(nodes, search_term, entity_types)))
    /\ UNCHANGED <<nodes, edges, constraints, pc, indexes, wrote, held>>

\* The rows of the relationship statement, once each however many relationships
\* give the same row
RelationshipListDistinct(N, E) ==
    LET row(e) == [source_id |-> (CHOOSE n \in N : n.nid = e.src).props.id,
                   target_id |-> (CHOOSE n \in N : n.nid = e.tgt).props.id,
                   relationship_type |-> PyStr(e.kind),
                   properties |-> e.props]
    IN  [r \in {row(e) : e \in E} |-> 1]

\* MATCH (source:Entity)-[r]->(target:Entity)
\* RETURN source.id, target.id, type(r), properties(r): one row per relationship
\* whose two ends carry the Entity label, as the bag of the rows
RelationshipList(N, E) ==
    LET matched == {e \in E : /\ \E n \in MatchLabel(N, "Entity") : n.nid = e.src
                              /\ \E n \in MatchLabel(N, "Entity") : n.nid = e.tgt}
        row(e) == [source_id |-> (CHOOSE n \in N : n.nid = e.src).props.id,
                   target_id |-> (CHOOSE n \in N : n.nid = e.tgt).props.id,
                   relationship_type |-> PyStr(e.kind),
                   properties |-> e.props]
    IN  [r \in {row(e) : e \in matched} |->
            Cardinality({e \in matched : row(e) = r})]

\* MATCH (e:Entity) RETURN e, then the relationship statement, in one session
GetFullTopologyGraph ==
    /\ pc = "idle"
    /\ last' = Returned("get_full_topology_graph", <<>>, "dict",
                        [nodes |-> EntityList(MatchLabel(nodes, "Entity")),
                         relationships |-> RelationshipList(nodes, edges)])
    /\ UNCHANGED <<nodes, edges, constraints, pc, indexes, wrote, held>>

\* The statement matches every entity, whatever its kind
QueryRowsAnyKind(N, entity_type) == MatchLabel(N, "Entity")

\* MATCH (e:Kind) RETURN e
QueryRows(N, entity_type) == MatchLabel(N, entity_type)

QueryEntitiesByType(entity_type) ==
    /\ pc = "idle"
    /\ last' = Returned("query_entities_by_type", <<entity_type>>, "list",
                        EntityList(QueryRows(nodes, entity_type)))
    /\ UNCHANGED <<nodes, edges, constraints, pc, indexes, wrote, held>>

---------------------------------------------------------------------------
(* JSON (json.dumps and json.loads, as the models call them).  A document is  *)
(* a tree; its text is a sequence of tokens written one after the other.      *)

JNull == [t |-> "null"]
JBool(b) == [t |-> "boolean", v |-> b]
JNum(n) == [t |-> "number", v |-> n]
JStr(s) == [t |-> "string", v |-> s]
JArr(q) == [t |-> "array", v |-> q]
\* An object is the sequence of its <<key, value>> members, as they are written
JObj(q) == [t |-> "object", v |-> q]

RECURSIVE Decimal(_)
\* A natural number in decimal
Decimal(n) == IF n < 10 THEN DigitChar(n) ELSE Decimal(n \div 10) \o DigitChar(n % 10)

\* The order in which the keys of a dict are visited.  A dict is a function here;
\* which order its keys have matters to the text and not to the dict read back.
KeyOrder == <<PyStr("a"), PyStr("b"), PyStr("k"), PyInt(1)>>

KeysOf(d) == SelectSeq(KeyOrder, LAMBDA k : k \in DOMAIN d)

\* A key of a dict as the key of an object: every key is written as a string
KeyText(k) ==
    CASE k.t = "str" -> k.v
      [] k.t = "int" -> Decimal(k.v)
      [] k.t = "bool" -> (IF k.v THEN "true" ELSE "false")
      [] k.t = "none" -> "null"

RECURSIVE Serializable(_)
\* json.dumps accepts the value (it raises TypeError for any other)
Serializable(v) ==
    CASE v.t \in {"none", "bool", "int", "str"} -> TRUE
      [] v.t \in {"list", "tuple"} -> \A i \in 1..Len(v.v) : Serializable(v.v[i])
      [] v.t = "dict" -> \A k \in DOMAIN v.v :
                            /\ k.t \in {"str", "int", "bool", "none"}
                            /\ Serializable(v.v[k])
      [] OTHER -> FALSE

RECURSIVE ToJson(_)
\* The document json.dumps writes for a value: lists and tuples are arrays alike
ToJson(v) ==
    CASE v.t = "none" -> JNull
      [] v.t = "bool" -> JBool(v.v)
      [] v.t = "int" -> JNum(v.v)
      [] v.t = "str" -> JStr(v.v)
      [] v.t \in {"list", "tuple"} -> JArr([i \in 1..Len(v.v) |-> ToJson(v.v[i])])
      [] v.t = "dict" ->
            LET keys == KeysOf(v.v)
            IN  JObj([i \in 1..Len(keys) |-> <<KeyText(keys[i]), ToJson(v.v[keys[i]])>>])

Punct(p) == [t |-> "punct", v |-> p]
Word(w) == [t |-> "word", v |-> w]
NumToken(n) == [t |-> "numeral", v |-> n]
StrToken(s) == [t |-> "quoted", v |-> s]

RECURSIVE JoinSeqs(_, _)
\* The sequences of parts one after the other, sep between two of them
JoinSeqs(parts, sep) ==
    IF parts = <<>> THEN <<>>
    ELSE IF Len(parts) = 1 THEN parts[1]
    ELSE parts[1] \o <<sep>> \o JoinSeqs(Tail(parts), sep)

RECURSIVE Tokens(_)
\* The tokens of a document, with the separators of json.dumps: ", " and ": "
Tokens(j) ==
    CASE j.t = "null" -> <<Word("null")>>
      [] j.t = "boolean" -> <<Word(IF j.v THEN "true" ELSE "false")>>
      [] j.t = "number" -> <<NumToken(j.v)>>
      [] j.t = "string" -> <<StrToken(j.v)>>
      [] j.t = "array" ->
            <<Punct("[")>>
            \o JoinSeqs([i \in 1..Len(j.v) |-> Tokens(j.v[i])], Punct(", "))
            \o <<Punct("]")>>
      [] j.t = "object" ->
            <<Punct("{")>>
            \o JoinSeqs([i \in 1..Len(j.v) |->
                            <<StrToken(j.v[i][1]), Punct(": ")>> \o Tokens(j.v[i][2])],
                        Punct(", "))
            \o <<Punct("}")>>

TokenText(t) ==
    CASE t.t = "numeral" -> Decimal(t.v)
      [] t.t = "quoted" -> "\"" \o t.v \o "\""
      [] OTHER -> t.v

\* The string a sequence of tokens is
TextOfTokens(q) == Join([i \in 1..Len(q) |-> TokenText(q[i])])

\* json.dumps(v)
Dumps(v) == TextOfTokens(Tokens(ToJson(v)))

ParseFailed == [ok |-> FALSE]
Parsed(j, next) == [ok |-> TRUE, val |-> j, next |-> next]

RECURSIVE ParseValue(_, _)
RECURSIVE ParseElements(_, _, _)
RECURSIVE ParseMembers(_, _, _)
\* The document that starts at token i, and the place after it
ParseValue(q, i) ==
    IF i > Len(q) THEN ParseFailed
    ELSE LET t == q[i]
         IN  CASE t.t = "numeral" -> Parsed(JNum(t.v), i + 1)
               [] t.t = "quoted" -> Parsed(JStr(t.v), i + 1)
               [] t.t = "word" ->
                     (CASE t.v = "null" -> Parsed(JNull, i + 1)
                        [] t.v = "true" -> Parsed(JBool(TRUE), i + 1)
                        [] t.v = "false" -> Parsed(JBool(FALSE), i + 1)
                        [] OTHER -> ParseFailed)
               [] t.t = "punct" /\ t.v = "[" ->
                     IF i + 1 <= Len(q) /\ q[i + 1] = Punct("]")
                     THEN Parsed(JArr(<<>>), i + 2)
                     ELSE ParseElements(q, i + 1, <<>>)
               [] t.t = "punct" /\ t.v = "{" ->
                     IF i + 1 <= Len(q) /\ q[i + 1] = Punct("}")
                     THEN Parsed(JObj(<<>>), i + 2)
                     ELSE ParseMembers(q, i + 1, <<>>)
               [] OTHER -> ParseFailed

\* The elements of an array from token i on, acc the elements before them
ParseElements(q, i, acc) ==
    LET r == ParseValue(q, i)
    IN  IF ~r.ok THEN ParseFailed
        ELSE IF r.next > Len(q) THEN ParseFailed
        ELSE IF q[r.next] = Punct(", ")
             THEN ParseElements(q, r.next + 1, Append(acc, r.val))
        ELSE IF q[r.next] = Punct("]")
             THEN Parsed(JArr(Append(acc, r.val)), r.next + 1)
        ELSE ParseFailed

\* The members of an object from token i on, acc the members before them
ParseMembers(q, i, acc) ==
    IF i + 1 > Len(q) \/ q[i].t # "quoted" \/ q[i + 1] # Punct(": ") THEN ParseFailed
    ELSE LET r == ParseValue(q, i + 2)
         IN  IF ~r.ok THEN ParseFailed
             ELSE IF r.next > Len(q) THEN ParseFailed
             ELSE IF q[r.next] = Punct(", ")
                  THEN ParseMembers(q, r.next + 1, Append(acc, <<q[i].v, r.val>>))
             ELSE IF q[r.next] = Punct("}")
                  THEN Parsed(JObj(Append(acc, <<q[i].v, r.val>>)), r.next + 1)
             ELSE ParseFailed

RECURSIVE FromJson(_)
\* The value json.loads builds for a document: an array is a list, an object a
\* dict with string keys in which the last member of a key wins
FromJson(j) ==
    CASE j.t = "null" -> PyNone
      [] j.t = "boolean" -> PyBool(j.v)
      [] j.t = "number" -> PyInt(j.v)
      [] j.t = "string" -> PyStr(j.v)
      [] j.t = "array" -> PyList([i \in 1..Len(j.v) |-> FromJson(j.v[i])])
      [] j.t = "object" ->
            PyDict([k \in {PyStr(j.v[i][1]) : i \in 1..Len(j.v)} |->
                      LET i == CHOOSE n \in 1..Len(j.v) :
                                   /\ j.v[n][1] = k.v
                                   /\ \A m \in (n + 1)..Len(j.v) : j.v[m][1] # k.v
                      IN  FromJson(j.v[i][2])])

\* The values and the maps the callers pass
Values ==
    {PyNone, PyBool(TRUE), PyInt(1), PyStr("x"),
     PyList(<<PyInt(1), PyStr("x")>>),
     PyTuple(<<PyInt(1), PyInt(2)>>),
     PyDict([k \in {PyStr("k")} |-> PyInt(12)]),
     PyDict([k \in {PyInt(1)} |-> PyStr("x")]),
     T0}

PropertyMaps ==
    {<<>>} \cup {[k \in {PyStr("a")} |-> v] : v \in Values}
           \cup {[k \in {PyStr("a"), PyStr("b")} |->
                     IF k = PyStr("a") THEN v ELSE PyInt(1)] : v \in Values}

LabelMaps ==
    {<<>>, [k \in {PyStr("a")} |-> PyStr("x")],
     [k \in {PyStr("a")} |-> PyTuple(<<PyInt(1), PyInt(2)>>)]}

\* Texts that are not what json.dumps writes for a dict: the empty text, a text
\* that is not JSON, a document cut short, and documents that are not objects
OtherTexts ==
    {<<>>,
     <<Word("not json")>>,
     <<Punct("{"), StrToken("a"), Punct(": ")>>,
     <<Punct("["), NumToken(1), Punct(", "), NumToken(2), Punct("]")>>,
     <<Word("null")>>,
     <<StrToken("x")>>}

\* The texts a JSON field of an object can hold, as their tokens
JsonTexts ==
    {Tokens(ToJson(PyDict(m))) : m \in {d \in PropertyMaps : Serializable(PyDict(d))}}
    \cup OtherTexts

\* The tokens of a text
Lex(s) == CHOOSE q \in JsonTexts : TextOfTokens(q) = s

\* json.loads(s): the value of the one document the text is, or JSONDecodeError
Loads(s) ==
    LET q == Lex(s)
        r == ParseValue(q, 1)
    IN  IF r.ok /\ r.next = Len(q) + 1
        THEN [ok |-> TRUE, val |-> FromJson(r.val)]
        ELSE [ok |-> FALSE]

---------------------------------------------------------------------------
(* Model objects in the hands of a caller (src/kg/models.py).  obj is the     *)
(* object, [cls, fields], the class kept apart from the value of the type     *)
(* field.                                                                     *)

\* The concrete classes the caller builds
Classes == {"VLAN", "Server", "KubernetesPod", "Container"}

\* type: Literal[EntityType.X] = EntityType.X, for each class
TypeLiteral(cls) ==
    CASE cls = "NetworkSwitch" -> "NetworkSwitch"
      [] cls = "NetworkPort" -> "NetworkPort"
      [] cls = "VLAN" -> "VLAN"
      [] cls = "Server" -> "Server"
      [] cls = "VirtualMachine" -> "VirtualMachine"
      [] cls = "KubernetesPod" -> "KubernetesPod"
      [] cls = "Container" -> "Container"

\* The fields of a new object of the class, the type left to its default
NewFields(cls) ==
    CASE cls = "VLAN" -> VLAN("N1", "VLAN-Production", 10, PyNone, T0, T0)
      [] cls = "Server" -> Server("S1", "web", "web-01", PyNone, PyInt(8), T0, T0)
      [] cls = "KubernetesPod" -> KubernetesPod("P1", "web-pod", "default", T0, T0)
      [] cls = "Container" -> Container("C1", "web-container", "nginx:latest", T0, T0)

\* Validation of the type argument: absent, or the literal of the class
TypeAccepted(cls, type) == type = PyNone \/ type = PyStr(TypeLiteral(cls))

\* cls(id=..., name=..., type=type, ...)
ConstructEntity(cls, type) ==
    /\ IF TypeAccepted(cls, type)
       THEN /\ obj' = [cls |-> cls,
                       fields |-> IF type = PyNone THEN NewFields(cls)
                                  ELSE [NewFields(cls) EXCEPT !.type = type]]
            /\ last' = Returned("__init__", <<cls, type>>, "object", PyNone)
       ELSE /\ obj' = obj
            /\ last' = Returned("__init__", <<cls, type>>, "raise",
                                PyStr("ValidationError"))
    /\ UNCHANGED <<nodes, edges, constraints, pc, indexes, wrote, driver, session, clients>>

\* obj.type = type: the models do not validate assignments
AssignType(type) ==
    /\ obj # PyNone
    /\ obj' = [obj EXCEPT !.fields.type = type]
    /\ last' = Returned("__setattr__", <<"type", type>>, "none", PyNone)
    /\ UNCHANGED <<nodes, edges, constraints, pc, indexes, wrote, driver, session, clients>>

\* The getter gives the empty dict whatever the field holds
JsonFieldEmpty(s) == PyDict(<<>>)

\* try: return json.loads(field)  except json.JSONDecodeError: return {}
JsonField(s) == IF Loads(s).ok THEN Loads(s).val ELSE PyDict(<<>>)

\* self.<field> = json.dumps(m), which raises TypeError before anything is assigned
SetJsonField(op, field, m) ==
    /\ obj # PyNone
    /\ field \in DOMAIN obj.fields
    /\ IF Serializable(PyDict(m))
       THEN /\ obj' = [obj EXCEPT !.fields[field] = PyStr(Dumps(PyDict(m)))]
            /\ last' = Returned(op, <<m>>, "none", PyNone)
       ELSE /\ obj' = obj
            /\ last' = Returned(op, <<m>>, "raise", PyStr("TypeError"))
    /\ UNCHANGED <<nodes, edges, constraints, pc, indexes, wrote, driver, session, clients>>

GetJsonField(op, field) ==
    /\ obj # PyNone
    /\ field \in DOMAIN obj.fields
    /\ last' = Returned(op, <<>>, "value", JsonField(obj.fields[field].v))
    /\ UNCHANGED <<nodes, edges, constraints, pc, indexes, wrote, driver, obj, session, clients>>

\* obj.<field> = text, or the field given as a string to the constructor: a
\* string is stored as it is
AssignJsonField(field, text) ==
    /\ obj # PyNone
    /\ field \in DOMAIN obj.fields
    /\ obj' = [obj EXCEPT !.fields[field] = PyStr(text)]
    /\ last' = Returned("__setattr__", <<field, PyStr(text)>>, "none", PyNone)
    /\ UNCHANGED <<nodes, edges, constraints, pc, indexes, wrote, driver, session, clients>>

\* Relationship(source_id=..., target_id=..., relationship_type=...)
ConstructRelationship(relationship) ==
    /\ obj' = [cls |-> "Relationship", fields |-> relationship]
    /\ last' = Returned("__init__", <<"Relationship", relationship>>, "object", PyNone)
    /\ UNCHANGED <<nodes, edges, constraints, pc, indexes, wrote, driver, session, clients>>

EntitySetProperties(properties) ==
    SetJsonField("set_properties", "properties_json", properties)

EntityGetProperties == GetJsonField("get_properties", "properties_json")

SetK8sLabels(labels) == SetJsonField("set_k8s_labels", "k8s_labels_json", labels)

GetK8sLabels == GetJsonField("get_k8s_labels", "k8s_labels_json")

SetAnnotations(annotations) ==
    SetJsonField("set_annotations", "annotations_json", annotations)

GetAnnotations == GetJsonField("get_annotations", "annotations_json")

SetEnvironmentVars(env_vars) ==
    SetJsonField("set_environment_vars", "environment_vars_json", env_vars)

GetEnvironmentVars == GetJsonField("get_environment_vars", "environment_vars_json")

---------------------------------------------------------------------------
(* The connection handle: construction, close and the with-block *)

\* No store has been constructed
NoDriver ==
    [state |-> "none", validated |-> FALSE, attempts |-> 0, closes |-> 0,
     entered |-> FALSE]

\* The answers of the server to connection attempts, in their order
Answers == {"ok", "ServiceUnavailable", "AuthError"}

\* _connect that tries again after a failure
ConnectRetrying(answers) ==
    IF \E i \in 1..Len(answers) : answers[i] = "ok"
    THEN [error |-> "", validated |-> TRUE,
          attempts |-> CHOOSE i \in 1..Len(answers) :
                           answers[i] = "ok" /\ \A j \in 1..(i - 1) : answers[j] # "ok"]
    ELSE [error |-> answers[Len(answers)], validated |-> FALSE, attempts |-> Len(answers)]

\* _connect: the driver is made and RETURN 1 is run in a session, once; the error
\* of a failed attempt is printed and raised again
Connect(answers) ==
    IF answers[1] = "ok"
    THEN [error |-> "", validated |-> TRUE, attempts |-> 1]
    ELSE [error |-> answers[1], validated |-> FALSE, attempts |-> 1]

\* Neo4jKnowledgeGraph(...): a constructor that raises gives the caller no store
Construct(answers) ==
    LET c == Connect(answers)
    IN  /\ pc = "idle"
        /\ driver.state = "none"
        /\ IF c.error = ""
           THEN /\ driver' = [state |-> "open", validated |-> c.validated,
                              attempts |-> c.attempts, closes |-> 0, entered |-> FALSE]
                /\ last' = Returned("__init__", <<answers>>, "none", PyNone)
           ELSE /\ driver' = [NoDriver EXCEPT !.attempts = c.attempts]
                /\ last' = Returned("__init__", <<answers>>, "raise", PyStr(c.error))
        /\ UNCHANGED <<nodes, edges, constraints, pc, indexes, wrote, obj, session, clients>>

\* close: self.driver is set by _connect and by nothing after it, so the test
\* passes on every call and the driver is closed on every call
Close ==
    /\ pc = "idle"
    /\ driver.state \in {"open", "closed"}
    /\ driver.closes < MaxCloses
    /\ driver' = [driver EXCEPT !.state = "closed", !.closes = @ + 1]
    /\ last' = Returned("close", <<>>, "none", PyNone)
    /\ UNCHANGED <<nodes, edges, constraints, pc, indexes, wrote, obj, session, clients>>

\* with store as db: __enter__ returns the store
Enter ==
    /\ pc = "idle"
    /\ driver.state \in {"open", "closed"}
    /\ ~driver.entered
    /\ driver' = [driver EXCEPT !.entered = TRUE]
    /\ last' = Returned("__enter__", <<>>, "self", PyNone)
    /\ UNCHANGED <<nodes, edges, constraints, pc, indexes, wrote, obj, session, clients>>

\* Leaving the with-block: __exit__ calls close
Exit ==
    /\ pc = "idle"
    /\ driver.entered
    /\ driver.closes < MaxCloses
    /\ driver' = [driver EXCEPT !.state = "closed", !.closes = @ + 1,
                                !.entered = FALSE]
    /\ last' = Returned("__exit__", <<>>, "none", PyNone)
    /\ UNCHANGED <<nodes, edges, constraints, pc, indexes, wrote, obj, session, clients>>

\* The handle of a store whose construction returned: one connection attempt,
\* validated by its query, not closed
OpenDriver ==
    [state |-> "open", validated |-> TRUE, attempts |-> 1, closes |-> 0,
     entered |-> FALSE]

\* The concurrent callers of the store
Clients == {1, 2}

\* A caller that has not called
NoCall ==
    [phase |-> "idle", entity |-> PyNone, ret |-> PyNone, overlap |-> FALSE,
     guarded |-> FALSE]

\* No session is open and no with-block is running
NoSession == [open |-> 0, phase |-> "idle"]

Init ==
    /\ nodes = {}
    /\ edges = {}
    /\ constraints = {}
    /\ pc = "idle"
    /\ last = Returned("__init__", <<>>, "none", PyNone)
    /\ indexes = {}
    /\ driver = OpenDriver
    /\ obj = PyNone
    /\ wrote = FALSE
    /\ session = NoSession
    /\ clients = [c \in Clients |-> NoCall]

Next ==
    \/ SetupConstraintsAndIndexes
    \/ \E entity \in Entities : CreateEntity(entity)
    \/ \E relationship \in Relationships : CreateRelationship(relationship, MaxEdges)
    \/ \E entity_id \in EntityIds : GetEntity(entity_id)
    \/ ClearDatabaseRelationships
    \/ ClearDatabaseNodes

Spec == Init /\ [][Next]_vars

(* The topology queries, over three entities with different ids *)

TopoEntities == {S1, V1, S2}

TopoRelationships ==
    {Relationship("S1", "V1", "HOSTS", T0),
     Relationship("V1", "S1", "RUNS_ON", T0),
     Relationship("V1", "S2", "RUNS_ON", T0),
     Relationship("S2", "S1", "CONNECTED_TO", T0),
     Relationship("S2", "S2", "CONNECTED_TO", T0)}

Filters ==
    {PyNone, PyList(<<>>), PyList(<<"HOSTS">>), PyList(<<"RUNS_ON">>),
     PyList(<<"RUNS_ON", "CONNECTED_TO">>), PyList(<<"HOSTS", "NOT A TYPE">>)}

NextTopo ==
    \/ \E entity \in TopoEntities : CreateEntity(entity)
    \/ \E relationship \in TopoRelationships :
           CreateRelationship(relationship, MaxTopoEdges)
    \/ \E start_id, end_id \in EntityIds : GetTopologyPath(start_id, end_id)
    \/ \E entity_id \in EntityIds, relationship_types \in Filters :
           GetEntityNeighbors(entity_id, relationship_types)

SpecTopo == Init /\ [][NextTopo]_vars

(* The read operations, over entities of three kinds *)

RV == VLAN("N1", "VLAN-Production", 10, PyStr("10.0.0.0/24"), T0, T0)
RS1 == Server("S1", "web", "prod-01", PyStr("10.0.0.1"), PyInt(8), T0, T0)
RS2 == Server("S2", "db", "db-02", PyNone, PyNone, T1, T1)
RM == VirtualMachine("V1", "web-vm", "vm-01", PyNone, PyInt(2), T0, T1)

ReadEntities == {RV, RS1, RS2, RM}

ReadRelationships ==
    {Relationship("S1", "V1", "HOSTS", T0),
     Relationship("V1", "N1", "MEMBER_OF", T0)}

SearchTerms == {"prod", "Prod", "web", "10.", "zz", ""}

KindFilters ==
    {PyNone, PyList(<<>>), PyList(<<"VLAN">>), PyList(<<"Server", "VirtualMachine">>)}

NextRead ==
    \/ \E entity \in ReadEntities : CreateEntity(entity)
    \/ \E relationship \in ReadRelationships : CreateRelationship(relationship, MaxEdges)
    \/ ClearDatabaseRelationships
    \/ ClearDatabaseNodes
    \/ GetStatistics
    \/ \E now \in {T0, T1} : GetTopologySummary(now)
    \/ \E search_term \in SearchTerms, entity_types \in KindFilters :
           SearchEntities(search_term, entity_types)
    \/ \E entity_type \in EntityType : QueryEntitiesByType(entity_type)

SpecRead == Init /\ [][NextRead]_vars

(* The life of the connection: construction, use, with-block and close *)

NotConstructed == Returned("", <<>>, "none", PyNone)

InitLife ==
    /\ nodes = {}
    /\ edges = {}
    /\ constraints = {}
    /\ pc = "idle"
    /\ last = NotConstructed
    /\ indexes = {}
    /\ driver = NoDriver
    /\ obj = PyNone
    /\ wrote = FALSE
    /\ session = NoSession
    /\ clients = [c \in Clients |-> NoCall]

\* The store is used while its driver is open
NextLife ==
    \/ \E answers \in Answers \X Answers : Construct(answers)
    \/ Enter
    \/ Exit
    \/ Close
    \/ driver.state = "open" /\ \E entity \in TopoEntities : CreateEntity(entity)

SpecLife == InitLife /\ [][NextLife]_vars

(* The model objects *)

TypeArguments == {PyNone, PyStr("VLAN"), PyStr("Server"), PyStr("Container")}

NextModel ==
    \/ \E cls \in Classes, type \in TypeArguments : ConstructEntity(cls, type)
    \/ \E type \in TypeArguments \ {PyNone} : AssignType(type)
    \/ \E properties \in PropertyMaps : EntitySetProperties(properties)
    \/ EntityGetProperties
    \/ \E labels \in LabelMaps : SetK8sLabels(labels)
    \/ GetK8sLabels
    \/ \E annotations \in LabelMaps : SetAnnotations(annotations)
    \/ GetAnnotations
    \/ \E env_vars \in LabelMaps : SetEnvironmentVars(env_vars)
    \/ GetEnvironmentVars

SpecModel == Init /\ [][NextModel]_vars

(* KnowledgeGraphLLMInterface.get_container_to_network_mapping
   (src/kg/llm_interface.py) *)

\* _get_infrastructure_layer
InfrastructureLayer(entity_type) ==
    CASE entity_type \in {PyStr("NetworkSwitch"), PyStr("NetworkPort"), PyStr("VLAN")} ->
             PyStr("Network Layer")
      [] entity_type = PyStr("Server") -> PyStr("Compute Layer")
      [] entity_type = PyStr("VirtualMachine") -> PyStr("Virtualization Layer")
      [] entity_type = PyStr("KubernetesPod") -> PyStr("Container Orchestration Layer")
      [] entity_type = PyStr("Container") -> PyStr("Application Layer")
      [] OTHER -> PyStr("Unknown Layer")

\* _build_infrastructure_stack on a dict: path.get('nodes', []), one item per node
BuildInfrastructureStack(path) ==
    LET path_nodes == IF "nodes" \in DOMAIN path THEN path.nodes ELSE <<>>
    IN  [i \in 1..Len(path_nodes) |->
            [id |-> path_nodes[i].id, name |-> path_nodes[i].name,
             type |-> path_nodes[i].type,
             layer |-> InfrastructureLayer(path_nodes[i].type)]]

\* The nodes of a sequence whose type is this one, in their order
RECURSIVE OfType(_, _)
OfType(path_nodes, entity_type) ==
    IF path_nodes = <<>> THEN <<>>
    ELSE (IF Head(path_nodes).type = PyStr(entity_type) THEN <<Head(path_nodes)>>
          ELSE <<>>) \o OfType(Tail(path_nodes), entity_type)

\* _extract_network_details on a dict
ExtractNetworkDetails(path) ==
    LET path_nodes == IF "nodes" \in DOMAIN path THEN path.nodes ELSE <<>>
    IN  [vlans |-> OfType(path_nodes, "VLAN"),
         switches |-> OfType(path_nodes, "NetworkSwitch"),
         servers |-> OfType(path_nodes, "Server"),
         ip_addresses |-> <<>>]

\* What get_topology_path(start_id, end_id) can return or raise
TopologyPathOutcomes(N, E, start_id, end_id) ==
    (IF MatchEntity(N, start_id) \cap MatchEntity(N, end_id) # {}
     THEN {Returned("get_topology_path", <<start_id, end_id>>, "raise",
                    PyStr("ClientError"))}
     ELSE {})
    \cup PathResult("get_topology_path", <<start_id, end_id>>,
                    PathRows(N, E, start_id, end_id))

\* The mapping built from what get_topology_path gave: its exception propagates,
\* a dict is read with .get, and the list [] has no .get
MappingResult(container_id, container, path, now) ==
    LET op == "get_container_to_network_mapping"
    IN  CASE path.kind = "raise" -> Returned(op, <<container_id>>, "raise", path.ret)
          [] path.kind = "dict" ->
                 Returned(op, <<container_id>>, "dict",
                          [container |-> container,
                           network_path |-> path.ret,
                           infrastructure_stack |-> BuildInfrastructureStack(path.ret),
                           network_details |-> ExtractNetworkDetails(path.ret),
                           analysis_timestamp |-> IsoFormat(now)])
          [] OTHER -> Returned(op, <<container_id>>, "raise", PyStr("AttributeError"))

\* An error dict
MappingError(container_id, text) ==
    Returned("get_container_to_network_mapping", <<container_id>>, "dict",
             [error |-> PyStr(text)])

\* get_entity gives one of the nodes with the id, all_switches[0] is the first
\* switch in the order of the store
GetContainerToNetworkMapping(container_id, now) ==
    LET found == MatchEntity(nodes, container_id)
        all_switches == QueryRows(nodes, "NetworkSwitch")
    IN  /\ pc = "idle"
        /\ IF found = {}
           THEN last' = MappingError(container_id, "Container not found")
           ELSE \E n \in found :
                    IF Prop(n, "type") # PyStr("Container")
                    THEN last' = MappingError(container_id, "Container not found")
                    ELSE IF all_switches = {}
                    THEN last' = MappingError(container_id,
                                              "No network switches found in topology")
                    ELSE \E switch \in all_switches :
                         \E path \in TopologyPathOutcomes(nodes, edges, container_id,
                                                          switch.props.id.v) :
                             last' = MappingResult(container_id, n.props, path, now)
        /\ UNCHANGED <<nodes, edges, constraints, pc, indexes, wrote, held>>

(* The session of a method: with self.driver.session() as session: ... *)

\* The session is closed when the block ends by a return only
SessionsAfterReturn(open, kind) == IF kind = "raise" THEN open ELSE open - 1

\* __exit__ of the with-block closes the session however the block ended
SessionsAfterExit(open, kind) == open - 1

\* self.driver.session() and __enter__: the driver hands out one more session
SessionEnter ==
    /\ pc = "idle"
    /\ session.phase = "idle"
    /\ session' = [open |-> session.open + 1, phase |-> "body"]
    /\ last' = Returned("session", <<>>, "running", PyNone)
    /\ UNCHANGED <<nodes, edges, constraints, pc, indexes, wrote, driver, obj, clients>>

\* The statements of a method may run: its with-block was entered and has not
\* ended, or clear_database is between its two statements
InBody ==
    /\ session.phase = "body"
    /\ last.op = "session" \/ pc = "clear_nodes"

\* The with-block ends, by the return or by the exception in last
SessionExit ==
    /\ session.phase = "body"
    /\ pc = "idle"
    /\ last.op # "session"
    /\ session' = [open |-> SessionsAfterExit(session.open, last.kind), phase |-> "idle"]
    /\ UNCHANGED <<nodes, edges, constraints, pc, last, indexes, wrote, driver, obj, clients>>

(* create_entity called by concurrent callers: the call, the statement, which the
   store runs as one transaction, and the return *)

\* The caller is inside a call
Running(c) == clients[c].phase \in {"called", "ran"}

\* create_entity(entity) is called: the session is opened and the dict is made.
\* overlap records that the call runs while another one does, guarded that the
\* constraint on the Entity label was installed when the call was made.
ClientCall(c, entity) ==
    /\ pc = "idle"
    /\ clients[c].phase = "idle"
    /\ clients' =
           [d \in Clients |->
               IF d = c
               THEN [phase |-> "called", entity |-> entity, ret |-> PyNone,
                     overlap |-> \E o \in Clients \ {c} : Running(o),
                     guarded |-> "Entity" \in constraints]
               ELSE IF Running(d) THEN [clients[d] EXCEPT !.overlap = TRUE]
               ELSE clients[d]]
    /\ UNCHANGED <<nodes, edges, constraints, pc, last, indexes, wrote, driver, obj,
                   session>>

\* session.run(query, properties=entity_dict): the store runs the CREATE statement
\* as one transaction, against the nodes stored when it runs
ClientRun(c) ==
    LET entity == clients[c].entity
        ok == CreateEntityAccepted(nodes, constraints, entity)
    IN  /\ clients[c].phase = "called"
        /\ ok => Cardinality(nodes) < MaxNodes
        /\ nodes' = IF ok THEN nodes \cup {NewNode(nodes, entity)} ELSE nodes
        /\ wrote' = (wrote \/ ok)
        /\ clients' = [clients EXCEPT ![c].phase = "ran", ![c].ret = ok]
        /\ UNCHANGED <<edges, constraints, pc, last, indexes, driver, obj, session>>

\* return True, or return False from the except clause
ClientReturn(c) ==
    /\ clients[c].phase = "ran"
    /\ clients' = [clients EXCEPT ![c].phase = "returned"]
    /\ last' = Returned("create_entity", <<clients[c].entity>>, "bool", clients[c].ret)
    /\ UNCHANGED <<nodes, edges, constraints, pc, indexes, wrote, driver, obj, session>>

(* The bulk load of DataGenerator (src/kg/data_generator.py) *)

RECURSIVE LoadEntitiesStopping(_, _, _)
\* The loop over the entities ends at the first create_entity that returns False
LoadEntitiesStopping(N, C, entities) ==
    IF entities = <<>> THEN [nodes |-> N, calls |-> <<>>, created |-> 0]
    ELSE LET entity == Head(entities)
             ok == CreateEntityAccepted(N, C, entity)
             rest == LoadEntitiesStopping(N \cup {NewNode(N, entity)}, C, Tail(entities))
         IN  IF ok
             THEN [rest EXCEPT !.calls = <<ok>> \o @, !.created = 1 + @]
             ELSE [nodes |-> N, calls |-> <<ok>>, created |-> 0]

RECURSIVE LoadEntities(_, _, _)
\* for entity in entities: if self.kg.create_entity(entity): created_entities += 1
\* calls holds what each create_entity returned
LoadEntities(N, C, entities) ==
    IF entities = <<>> THEN [nodes |-> N, calls |-> <<>>, created |-> 0]
    ELSE LET entity == Head(entities)
             ok == CreateEntityAccepted(N, C, entity)
             rest == LoadEntities(IF ok THEN N \cup {NewNode(N, entity)} ELSE N,
                                  C, Tail(entities))
         IN  [rest EXCEPT !.calls = <<ok>> \o @,
                          !.created = (IF ok THEN 1 ELSE 0) + @]

RECURSIVE LoadRelationships(_, _, _)
\* for relationship in relationships:
\*     if self.kg.create_relationship(relationship): created_relationships += 1
LoadRelationships(N, E, relationships) ==
    IF relationships = <<>> THEN [edges |-> E, calls |-> <<>>, created |-> 0]
    ELSE LET relationship == Head(relationships)
             rows == EndpointRows(N, relationship.source_id.v, relationship.target_id.v)
             ok == CreateRelationshipAccepted(relationship) /\ rows # {}
             rest == LoadRelationships(
                         N,
                         IF ok
                         THEN E \cup {NewEdge(E, row, relationship.relationship_type.v,
                                              RelProperties(relationship)) : row \in rows}
                         ELSE E,
                         Tail(relationships))
         IN  [rest EXCEPT !.calls = <<ok>> \o @,
                          !.created = (IF ok THEN 1 ELSE 0) + @]

\* populate_database: the entities and then the relationships that
\* generate_full_topology returned are created one by one, the two counts are
\* printed with the numbers of items and with the statistics of the store
PopulateDatabase(entities, relationships) ==
    \E le \in {LoadEntities(nodes, constraints, entities)} :
    \E lr \in {LoadRelationships(le.nodes, edges, relationships)} :
        /\ pc = "idle"
        /\ Cardinality(le.nodes) <= MaxNodes
        /\ Cardinality(lr.edges) <= MaxEdges
        /\ nodes' = le.nodes
        /\ edges' = lr.edges
        /\ wrote' = (wrote \/ le.created > 0 \/ lr.created > 0)
        /\ last' = Extend(Returned("populate_database", <<>>, "none", PyNone),
                          [generated |-> <<entities, relationships>>,
                           calls |-> [entities |-> le.calls, relationships |-> lr.calls],
                           printed |-> [created_entities |-> le.created,
                                        entities |-> Len(entities),
                                        created_relationships |-> lr.created,
                                        relationships |-> Len(relationships),
                                        stats |-> Statistics(le.nodes, lr.edges)]])
        /\ UNCHANGED <<constraints, pc, indexes, held>>

\* The sequences of at most n items of S
RECURSIVE SeqsUpTo(_, _)
SeqsUpTo(S, n) ==
    IF n = 0 THEN {<<>>}
    ELSE SeqsUpTo(S, n - 1) \cup {<<x>> \o q : x \in S, q \in {q \in SeqsUpTo(S, n - 1) : Len(q) = n - 1}}

LoadEntitySet == {S1, S1b, V1}

LoadRelationshipSet ==
    {Relationship("S1", "V1", "HOSTS", T0),
     Relationship("V1", "S2", "RUNS_ON", T0)}

NextLoad ==
    \/ SetupConstraintsAndIndexes
    \/ \E entities \in SeqsUpTo(LoadEntitySet, MaxLoadEntities),
          relationships \in SeqsUpTo(LoadRelationshipSet, MaxLoadRelationships) :
           PopulateDatabase(entities, relationships)

SpecLoad == Init /\ [][NextLoad]_vars

(* The mapping of a container to the network, over a container, a server and a
   switch *)

FC == Container("C1", "app", "nginx:1.25", T0, T0)
FS == Server("S1", "web", "web-01", PyNone, PyInt(8), T0, T0)
FW == NetworkSwitch("W1", "core-sw", PyInt(24), T0, T0)

FacadeEntities == {FC, FS, FW}

FacadeRelationships ==
    {Relationship("S1", "C1", "HOSTS", T0),
     Relationship("S1", "W1", "CONNECTED_TO", T0)}

FacadeIds == {"C1", "S1", "W1"}

NextFacade ==
    \/ \E entity \in FacadeEntities : CreateEntity(entity)
    \/ \E relationship \in FacadeRelationships : CreateRelationship(relationship, MaxEdges)
    \/ \E container_id \in FacadeIds, now \in {T1} :
           GetContainerToNetworkMapping(container_id, now)

SpecFacade == Init /\ [][NextFacade]_vars

(* Two callers, each making one call of create_entity, before or after the
   schema setup *)

ClientEntities == {S1, S1b, S1vm, V1}

NextClients ==
    \/ SetupConstraintsAndIndexes
    \/ \E c \in Clients, entity \in ClientEntities : ClientCall(c, entity)
    \/ \E c \in Clients : ClientRun(c)
    \/ \E c \in Clients : ClientReturn(c)

SpecClients == Init /\ [][NextClients]_vars

(* The methods of the store step by step: the session is opened, the statements
   run, the session is closed *)

SessionEntities == {S1, V1}

SessionRelationships == {Relationship("S1", "V1", "HOSTS", T0)}

SessionIds == {"S1", "V1"}

SessionFilters == {PyNone, PyList(<<"HOSTS", "NOT A TYPE">>)}

NextSession ==
    \/ SessionEnter
    \/ InBody /\ SetupConstraintsAndIndexes
    \/ InBody /\ \E entity \in SessionEntities : CreateEntity(entity)
    \/ InBody /\ \E relationship \in SessionRelationships :
                     CreateRelationship(relationship, MaxEdges)
    \/ InBody /\ \E entity_id \in SessionIds : GetEntity(entity_id)
    \/ InBody /\ \E start_id, end_id \in SessionIds : GetTopologyPath(start_id, end_id)
    \/ InBody /\ \E entity_id \in SessionIds, relationship_types \in SessionFilters :
                     GetEntityNeighbors(entity_id, relationship_types)
    \/ InBody /\ GetStatistics
    \/ InBody /\ ClearDatabaseRelationships
    \/ InBody /\ ClearDatabaseNodes
    \/ SessionExit

SpecSession == Init /\ [][NextSession]_vars

(* The export of the whole graph, over entities two of which share an id and one
   of which has a field that holds a dict *)

\* S2 after s2.properties_json = {"a": "x"}: assignments are not validated
S2d == [S2 EXCEPT !.properties_json = PyDict([k \in {PyStr("a")} |-> PyStr("x")])]

GraphEntities == {S1, S1b, V1, S2d}

GraphRelationships ==
    {Relationship("S1", "V1", "HOSTS", T0),
     Relationship("V1", "S1", "RUNS_ON", T1),
     Relationship("V1", "V1", "CONNECTED_TO", T0)}

NextGraph ==
    \/ \E entity \in GraphEntities : CreateEntity(entity)
    \/ \E relationship \in GraphRelationships : CreateRelationship(relationship, MaxEdges)
    \/ GetFullTopologyGraph

SpecGraph == Init /\ [][NextGraph]_vars

(* The getters of the JSON fields, over strings stored in the fields *)

JsonFields ==
    {"properties_json", "k8s_labels_json", "annotations_json", "environment_vars_json"}

\* The strings stored in the fields: the texts that are not a dict's, and two
\* that are
StoredTexts ==
    OtherTexts \cup {Tokens(ToJson(PyDict(m))) : m \in LabelMaps \ {<<>>}}

NextStored ==
    \/ \E cls \in Classes : ConstructEntity(cls, PyNone)
    \/ \E relationship \in TopoRelationships : ConstructRelationship(relationship)
    \/ \E field \in JsonFields, q \in StoredTexts : AssignJsonField(field, TextOfTokens(q))
    \/ EntityGetProperties
    \/ GetK8sLabels
    \/ GetAnnotations
    \/ GetEnvironmentVars

SpecStored == Init /\ [][NextStored]_vars

---------------------------------------------------------------------------
(* Properties of the write operations, checked under Spec *)

\* The nodes whose id property is id, whatever their labels
NodesWithId(N, id) == {n \in N : "id" \in DOMAIN n.props /\ n.props.id = PyStr(id)}

\* C1 as stated: create_entity on an id that is already stored returns false and
\* leaves the store as it was, and on an id that is not stored it returns true
C1_Original ==
    [][last'.op = "create_entity" =>
          IF NodesWithId(nodes, last'.args[1].id.v) # {}
          THEN last'.ret = FALSE /\ nodes' = nodes
          ELSE last'.ret = TRUE]_vars

\* C1, amended: while the uniqueness constraint on the Entity label is installed,
\* create_entity on an id that is not stored returns true and stores one node with
\* the entity's properties; on an id that is already stored it returns false and
\* the store still holds exactly one node with that id, unchanged
C1_DuplicateRejected ==
    [][(last'.op = "create_entity" /\ "Entity" \in constraints) =>
          LET id == last'.args[1].id.v
          IN  IF NodesWithId(nodes, id) # {}
              THEN /\ last'.ret = FALSE
                   /\ nodes' = nodes
                   /\ Cardinality(NodesWithId(nodes', id)) = 1
              ELSE /\ last'.ret = TRUE
                   /\ Cardinality(NodesWithId(nodes', id)) = 1
                   /\ nodes \subseteq nodes']_vars

\* S1b was refused because S1 is stored, and S1's node is as S1 wrote it
C1_Witness ==
    /\ "Entity" \in constraints
    /\ last.op = "create_entity" /\ last.args[1] = S1b /\ last.ret = FALSE
    /\ \E n \in nodes : n.props.name = PyStr("web") /\ n.labels = {"Entity", "Server"}
    /\ Cardinality(NodesWithId(nodes, "S1")) = 1

\* C2: create_relationship with an endpoint id that matches no stored entity
\* returns false and changes neither the nodes nor the relationships
C2_MissingEndpoint ==
    [][(/\ last'.op = "create_relationship"
        /\ \/ MatchEntity(nodes, last'.args[1].source_id.v) = {}
           \/ MatchEntity(nodes, last'.args[1].target_id.v) = {}) =>
          (last'.ret = FALSE /\ nodes' = nodes /\ edges' = edges)]_vars

\* A well-formed relationship was refused with its source stored and its target not
C2_Witness ==
    /\ last.op = "create_relationship" /\ last.ret = FALSE
    /\ IsCypherName(last.args[1].relationship_type.v)
    /\ MatchEntity(nodes, last.args[1].source_id.v) # {}
    /\ MatchEntity(nodes, last.args[1].target_id.v) = {}

\* C3: every stored relationship starts and ends at a stored entity, also between
\* the two statements of clear_database
C3_ReferentialIntegrity ==
    \A e \in edges :
        /\ \E n \in nodes : n.nid = e.src /\ "Entity" \in n.labels
        /\ \E n \in nodes : n.nid = e.tgt /\ "Entity" \in n.labels

\* Two relationships are stored, one of them between two different entities
C3_Witness ==
    /\ Cardinality(edges) = 2
    /\ \E e \in edges : e.src # e.tgt

\* C4 as stated: no two stored nodes have the same id
C4_Original ==
    \A n1, n2 \in nodes : n1.props.id = n2.props.id => n1 = n2

\* C4, amended: while the uniqueness constraint on the Entity label is installed,
\* no two stored nodes have the same id, whatever their kinds
C4_IdUnique ==
    "Entity" \in constraints =>
        \A n1, n2 \in nodes : n1.props.id = n2.props.id => n1 = n2

\* A VirtualMachine with id S1 was refused because a Server with id S1 is stored
C4_Witness ==
    /\ "Entity" \in constraints
    /\ last.op = "create_entity" /\ last.args[1] = S1vm /\ last.ret = FALSE
    /\ \E n \in nodes : n.props.id = PyStr("S1") /\ "Server" \in n.labels

\* C5 as stated: create_relationship called again with the relationship of the
\* successful call before it adds no relationship
C5_RetryAddsNothing ==
    [][(/\ last.op = "create_relationship" /\ last.ret = TRUE
        /\ last'.op = "create_relationship" /\ last'.args = last.args) =>
          edges' = edges]_vars

\* The fields of an entity that survive serialization: neither None nor a map,
\* the timestamps as their ISO string
Survives(entity) ==
    [k \in {k \in DOMAIN entity : entity[k].t \notin {"none", "dict"}} |->
        IF entity[k].t = "datetime" THEN IsoFormat(entity[k]) ELSE entity[k]]

---------------------------------------------------------------------------
(* Properties of the topology queries, checked under SpecTopo *)

\* C6 as stated: no operation lets an exception reach its caller
C6_NoExceptionPropagates == last.kind # "raise"

\* The nodes one relationship away from a node of S, whatever the direction
Step(E, S) ==
    {e.tgt : e \in {f \in E : f.src \in S}} \cup {e.src : e \in {f \in E : f.tgt \in S}}

RECURSIVE Within(_, _, _)
\* The nodes at most k relationships away from s
Within(E, s, k) ==
    IF k = 0 THEN {s} ELSE Within(E, s, k - 1) \cup Step(E, Within(E, s, k - 1))

Connected(E, s, t) == t \in Within(E, s, Cardinality(E))

\* The fewest relationships on a chain from s to t
Distance(E, s, t) ==
    CHOOSE k \in 0..Cardinality(E) :
        /\ t \in Within(E, s, k)
        /\ \A j \in 0..(k - 1) : t \notin Within(E, s, j)

\* Pairs of different stored nodes with these ids that some chain joins
ConnectedEnds(start_id, end_id) ==
    {st \in MatchEntity(nodes, start_id) \X MatchEntity(nodes, end_id) :
        st[1] # st[2] /\ Connected(edges, st[1].nid, st[2].nid)}

\* C8: for two different ids whose entities some chain of relationships joins,
\* get_topology_path returns a path from the first to the second, each hop a
\* stored relationship of the listed kind, one kind per hop, with as few hops as
\* any chain between its ends
C8_ShortestPath ==
    (/\ last.op = "get_topology_path"
     /\ last.args[1] # last.args[2]
     /\ ConnectedEnds(last.args[1], last.args[2]) # {}) =>
        /\ last.kind = "dict"
        /\ LET r == last.ret
               n == Len(r.nodes)
           IN  /\ n >= 2
               /\ Len(r.relationships) = n - 1
               /\ r.nodes[1].id = PyStr(last.args[1])
               /\ r.nodes[n].id = PyStr(last.args[2])
               /\ \A i \in 1..(n - 1) :
                      \E e \in edges, x, y \in nodes :
                          /\ x.props.id = r.nodes[i].id
                          /\ y.props.id = r.nodes[i + 1].id
                          /\ e.kind = r.relationships[i]
                          /\ {e.src, e.tgt} = {x.nid, y.nid}
               /\ \E st \in ConnectedEnds(last.args[1], last.args[2]) :
                      n - 1 = Distance(edges, st[1].nid, st[2].nid)

\* One hop was returned between S1 and V1 while a chain of two hops through S2
\* joins them as well
C8_Witness ==
    /\ last.op = "get_topology_path" /\ last.kind = "dict"
    /\ last.args = <<"S1", "V1">>
    /\ Len(last.ret.nodes) = 2
    /\ last.ret.relationships = <<"HOSTS">>
    /\ \E e1, e2 \in edges :
           /\ {e1.src, e1.tgt} = {<<"S1", 1>>, <<"S2", 1>>}
           /\ {e2.src, e2.tgt} = {<<"S2", 1>>, <<"V1", 1>>}

\* C9: get_topology_path returns the empty list, and raises nothing, when one of
\* the ids matches no stored entity or no chain joins the entities of two
\* different ids
C9_NoPathIsEmpty ==
    (/\ last.op = "get_topology_path"
     /\ \/ MatchEntity(nodes, last.args[1]) = {}
        \/ MatchEntity(nodes, last.args[2]) = {}
        \/ /\ last.args[1] # last.args[2]
           /\ ConnectedEnds(last.args[1], last.args[2]) = {}) =>
        (last.kind = "list" /\ last.ret = <<>>)

\* Both entities are stored, relationships are stored, and no chain joins the two
C9_Witness ==
    /\ last.op = "get_topology_path" /\ last.kind = "list" /\ last.ret = <<>>
    /\ last.args[1] # last.args[2]
    /\ MatchEntity(nodes, last.args[1]) # {}
    /\ MatchEntity(nodes, last.args[2]) # {}
    /\ edges # {}

\* C10 as stated: with a filter list supplied, get_entity_neighbors returns only
\* neighbors joined by a relationship whose kind is in the list
C10_FilterOnly ==
    (/\ last.op = "get_entity_neighbors" /\ last.kind = "list"
     /\ last.args[2].t = "list") =>
        \A d \in DOMAIN last.ret :
            \E i \in 1..Len(last.args[2].v) :
                last.args[2].v[i] = d.relationship_type.v

---------------------------------------------------------------------------
(* Properties of the read operations, checked under SpecRead *)

\* The counts of an empty store
ZeroStatistics ==
    [total_entities |-> PyInt(0), total_relationships |-> PyInt(0),
     entity_counts |-> [t \in EntityType |-> PyInt(0)]]

\* C11: clear_database raises nothing, and the get_statistics that follows it
\* reports zero entities, zero relationships and zero for every kind, whatever
\* was created before
C11_ClearThenZero ==
    [][/\ last'.op = "clear_database" => last'.kind # "raise"
       /\ (/\ last.op = "clear_database" /\ last.kind = "none"
           /\ last'.op = "get_statistics")
            => last'.ret = ZeroStatistics]_vars

\* get_statistics reported the zero counts on a store that creates had written
\* to: only clear_database can have emptied it
C11_Witness ==
    /\ last.op = "get_statistics" /\ last.ret = ZeroStatistics
    /\ wrote
    /\ nodes = {} /\ edges = {}

\* The number of stored relationships of each kind that is stored
RelationshipCounts(E) ==
    [k \in {e.kind : e \in E} |-> PyInt(Cardinality({e \in E : e.kind = k}))]

\* C12 as stated: get_statistics returns the total entity count, the total
\* relationship count, the count of entities of each kind and the count of
\* relationships of each kind, each equal to what the store holds, and the
\* topology summary of the facade is built from the four
C12_FourComponents ==
    /\ last.op = "get_statistics" =>
          /\ DOMAIN last.ret = {"total_entities", "total_relationships",
                                "entity_counts", "relationship_counts"}
          /\ last.ret.total_entities = PyInt(Cardinality(nodes))
          /\ last.ret.total_relationships = PyInt(Cardinality(edges))
          /\ \A t \in EntityType :
                last.ret.entity_counts[t] = PyInt(Cardinality(MatchLabel(nodes, t)))
          /\ last.ret.relationship_counts = RelationshipCounts(edges)
    /\ last.op = "get_topology_summary" =>
          /\ last.kind = "dict"
          /\ last.ret.infrastructure_overview.relationship_breakdown
                = RelationshipCounts(edges)

\* The lower-case form of a character, for the upper-case letters of Texts
Lower(c) ==
    CASE c = "V" -> "v" [] c = "L" -> "l" [] c = "A" -> "a" [] c = "N" -> "n"
      [] c = "P" -> "p" [] OTHER -> c

\* t occurs in s when the difference between upper and lower case is ignored
ContainsIgnoringCase(s, t) ==
    LET a == [i \in 1..Len(Chars(s)) |-> Lower(Chars(s)[i])]
        b == [i \in 1..Len(Chars(t)) |-> Lower(Chars(t)[i])]
    IN  \E i \in 0..(Len(a) - Len(b)) : SubSeq(a, i + 1, i + Len(b)) = b

\* C13 as stated: search_entities raises nothing and returns every stored entity
\* whose name contains the term, in the sense in which "VLAN-Production" contains
\* "prod"; when no name contains the term it returns the empty list
C13_NameSubstring ==
    last.op = "search_entities" =>
        /\ last.kind = "list"
        /\ \A n \in nodes :
              ContainsIgnoringCase(n.props.name.v, last.args[1]) =>
                  (~HasFilter(last.args[2]) => n.props \in DOMAIN last.ret)
        /\ (\A n \in nodes : ~ContainsIgnoringCase(n.props.name.v, last.args[1])) =>
              DOMAIN last.ret = {}

\* The value of a string property of a node, the empty string when it has none
TextOf(n, k) == IF k \in DOMAIN n.props /\ n.props[k].t = "str" THEN n.props[k].v ELSE ""

\* C14 as stated: search_entities without a filter on the kinds also returns the
\* stored entities whose hostname or ip_address contains the term
C14_HostnameOrAddress ==
    (last.op = "search_entities" /\ ~HasFilter(last.args[2]) /\ last.args[1] # "") =>
        \A n \in nodes :
            (\/ Contains(TextOf(n, "hostname"), last.args[1])
             \/ Contains(TextOf(n, "ip_address"), last.args[1])) =>
                n.props \in DOMAIN last.ret

\* The number of items of a list held as a bag
RECURSIVE BagSize(_)
BagSize(b) ==
    IF DOMAIN b = {} THEN 0
    ELSE LET d == CHOOSE x \in DOMAIN b : TRUE
         IN  b[d] + BagSize([x \in DOMAIN b \ {d} |-> b[x]])

\* C15: query_entities_by_type(k) returns exactly the stored entities of kind k:
\* each of them once, with its stored properties, and nothing of another kind
C15_ExactlyTheKind ==
    last.op = "query_entities_by_type" =>
        LET k == last.args[1]
            stored == {n \in nodes : n.props.type = PyStr(k)}
        IN  /\ last.kind = "list"
            /\ DOMAIN last.ret = {n.props : n \in stored}
            /\ \A d \in DOMAIN last.ret :
                  last.ret[d] = Cardinality({n \in stored : n.props = d})
            /\ BagSize(last.ret) = Cardinality(stored)

\* The query for servers returned the two stored servers and not the stored
\* virtual machine
C15_Witness ==
    /\ last.op = "query_entities_by_type" /\ last.args = <<"Server">>
    /\ BagSize(last.ret) = 2
    /\ \E n \in nodes : n.props.type = PyStr("VirtualMachine")
    /\ Cardinality(nodes) = 3

---------------------------------------------------------------------------
(* Properties of the connection handle, checked under SpecLife *)

\* C17 as stated: the driver of a store is closed at most once, however often
\* close is called and whether or not a with-block is left after a close
C17_ReleasedOnce == driver.closes <= 1

\* C18: a constructor call makes one connection attempt; when the attempt fails
\* the call raises the error of the attempt and the caller has no store; a store
\* the constructor returned has a driver whose RETURN 1 query succeeded
C18_FailurePropagates ==
    [][last'.op = "__init__" =>
          /\ driver'.attempts = 1
          /\ last'.args[1][1] # "ok" =>
                /\ last'.kind = "raise" /\ last'.ret = PyStr(last'.args[1][1])
                /\ driver'.state = "none"
          /\ driver'.state # "none" =>
                /\ last'.kind = "none" /\ last'.args[1][1] = "ok"
                /\ driver'.validated]_vars

\* The constructor raised the authentication failure of its only attempt, although
\* a second attempt would have connected
C18_Witness ==
    /\ last.op = "__init__" /\ last.kind = "raise" /\ last.ret = PyStr("AuthError")
    /\ last.args[1] = <<"AuthError", "ok">>
    /\ driver.state = "none" /\ driver.attempts = 1

---------------------------------------------------------------------------
(* Properties of the model objects, checked under SpecModel *)

\* C19 as stated: the type of an object of a concrete class is the literal of the
\* class, at its construction and after any assignment
C19_KindIsLiteral ==
    obj # PyNone => obj.fields.type = PyStr(TypeLiteral(obj.cls))

\* The getter of each setter
GetterOf(op) ==
    CASE op = "set_properties" -> "get_properties"
      [] op = "set_k8s_labels" -> "get_k8s_labels"
      [] op = "set_annotations" -> "get_annotations"
      [] op = "set_environment_vars" -> "get_environment_vars"

Setters == {"set_properties", "set_k8s_labels", "set_annotations", "set_environment_vars"}

\* A setter returned and its getter is the next call
SetThenGet == last.op \in Setters /\ last.kind = "none" /\ last'.op = GetterOf(last.op)

RECURSIVE JsonNative(_)
\* A value made of None, booleans, integers, strings, lists and dicts whose keys
\* are strings, at every depth
JsonNative(v) ==
    CASE v.t \in {"none", "bool", "int", "str"} -> TRUE
      [] v.t = "list" -> \A i \in 1..Len(v.v) : JsonNative(v.v[i])
      [] v.t = "dict" -> \A k \in DOMAIN v.v : k.t = "str" /\ JsonNative(v.v[k])
      [] OTHER -> FALSE

---------------------------------------------------------------------------
(* Properties of the getters of the JSON fields, checked under SpecStored *)

Getters == {"get_properties", "get_k8s_labels", "get_annotations", "get_environment_vars"}

\* The field each getter reads
FieldOf(op) ==
    CASE op = "get_properties" -> "properties_json"
      [] op = "get_k8s_labels" -> "k8s_labels_json"
      [] op = "get_annotations" -> "annotations_json"
      [] op = "get_environment_vars" -> "environment_vars_json"

\* The text is what json.dumps writes for some map
SerializesAMap(s) ==
    LET r == ParseValue(Lex(s), 1)
    IN  r.ok /\ r.next = Len(Lex(s)) + 1 /\ r.val.t = "object"

\* C21 as stated: a getter raises nothing and returns a map, the empty map when the
\* stored string is not the serialization of a map
C21_AlwaysAMap ==
    last.op \in Getters =>
        /\ last.kind # "raise"
        /\ last.ret.t = "dict"
        /\ ~SerializesAMap(obj.fields[FieldOf(last.op)].v) => last.ret = PyDict(<<>>)

---------------------------------------------------------------------------
(* Properties of create_relationship's result, checked under Spec *)

\* The fields of a relationship as they are stored: all but the two endpoint ids
\* and the kind, the timestamp as its ISO string
Flattened(relationship) ==
    [k \in DOMAIN relationship \ {"source_id", "target_id", "relationship_type"} |->
        IF relationship[k].t = "datetime" THEN IsoFormat(relationship[k])
        ELSE relationship[k]]

\* e goes from a stored entity with the relationship's source_id to one with its
\* target_id, has its kind and carries its flattened fields
IsEdgeOf(e, relationship, N) ==
    /\ \E n \in MatchEntity(N, relationship.source_id.v) : e.src = n.nid
    /\ \E n \in MatchEntity(N, relationship.target_id.v) : e.tgt = n.nid
    /\ e.kind = relationship.relationship_type.v
    /\ e.props = Flattened(relationship)

\* C22 as stated: a create_relationship that returns true adds exactly one
\* relationship, from the source to the target, of the relationship's kind and with
\* its flattened fields without source_id, target_id and relationship_type
C22_Original ==
    [][(last'.op = "create_relationship" /\ last'.ret = TRUE) =>
          \E e \in edges' \ edges :
              /\ edges' = edges \cup {e}
              /\ IsEdgeOf(e, last'.args[1], nodes)]_vars

\* C22, amended: when source_id and target_id each match exactly one stored
\* entity, a create_relationship that returns true adds exactly one relationship,
\* from the source to the target, of the relationship's kind and with its flattened
\* fields without source_id, target_id and relationship_type; nodes are unchanged
C22_ExactlyOneEdge ==
    [][(/\ last'.op = "create_relationship" /\ last'.ret = TRUE
        /\ Cardinality(MatchEntity(nodes, last'.args[1].source_id.v)) = 1
        /\ Cardinality(MatchEntity(nodes, last'.args[1].target_id.v)) = 1) =>
          /\ nodes' = nodes
          /\ \E e \in edges' \ edges :
                 /\ edges' = edges \cup {e}
                 /\ IsEdgeOf(e, last'.args[1], nodes)]_vars

\* RUNS_ON from V1 to S2 was created as the second relationship of the store, with
\* the timestamp as a string and the serialized properties
C22_Witness ==
    /\ last.op = "create_relationship" /\ last.ret = TRUE
    /\ last.args[1] = Relationship("V1", "S2", "RUNS_ON", T0)
    /\ Cardinality(MatchEntity(nodes, "V1")) = 1
    /\ Cardinality(MatchEntity(nodes, "S2")) = 1
    /\ Cardinality(edges) = 2
    /\ \E e \in edges :
           /\ e.src = <<"V1", 1>> /\ e.tgt = <<"S2", 1>> /\ e.kind = "RUNS_ON"
           /\ e.props = [properties_json |-> PyStr("{}"),
                         created_at |-> PyStr("2023-01-15T10:30:00")]

\* C23: every stored relationship has one of the seven kinds of RelationshipType
C23_KindIsListed == \A e \in edges : e.kind \in RelationshipType

---------------------------------------------------------------------------
(* Properties of the export of the whole graph, checked under SpecGraph *)

\* What the export shows of a stored relationship: the ids of the entities at its
\* two ends, its kind and its properties
Shown(e) ==
    [source_id |-> (CHOOSE n \in nodes : n.nid = e.src).props.id,
     target_id |-> (CHOOSE n \in nodes : n.nid = e.tgt).props.id,
     relationship_type |-> PyStr(e.kind),
     properties |-> e.props]

---------------------------------------------------------------------------
(* Properties of the bulk load, checked under SpecLoad *)

\* The number of TRUE items of a sequence of results
Succeeded(calls) == Cardinality({i \in DOMAIN calls : calls[i]})

\* C25: populate_database makes one create call per generated item, in sequence
\* and past every call that returned false; each printed count of created items is
\* the number of the calls that returned true and is not greater than the number
\* of items; and the call for a relationship returned true exactly when both its
\* endpoints were stored at the time of the call
C25_BulkLoad ==
    [][last'.op = "populate_database" =>
          LET es == last'.generated[1]
              rs == last'.generated[2]
              ce == last'.calls.entities
              cr == last'.calls.relationships
              p == last'.printed
          IN  /\ last'.kind # "raise"
              /\ Len(ce) = Len(es) /\ Len(cr) = Len(rs)
              /\ p.created_entities = Succeeded(ce)
              /\ p.created_relationships = Succeeded(cr)
              /\ p.entities = Len(es) /\ p.created_entities <= p.entities
              /\ p.relationships = Len(rs) /\ p.created_relationships <= p.relationships
              /\ Cardinality(nodes') = Cardinality(nodes) + p.created_entities
              /\ Cardinality(edges') >= Cardinality(edges) + p.created_relationships
              /\ \A i \in DOMAIN rs :
                     cr[i] <=> /\ MatchEntity(nodes', rs[i].source_id.v) # {}
                               /\ MatchEntity(nodes', rs[i].target_id.v) # {}]_vars

\* With the constraint installed and S1 stored, the load of S1b, V1 and of V1->S2,
\* S1->V1 went on past the refused S1b and past the relationship to the missing
\* S2, and printed 1/2 and 1/2
C25_Witness ==
    /\ last.op = "populate_database"
    /\ "Entity" \in constraints
    /\ last.generated[1] = <<S1b, V1>>
    /\ last.calls.entities = <<FALSE, TRUE>>
    /\ last.calls.relationships = <<FALSE, TRUE>>
    /\ last.printed.created_entities = 1 /\ last.printed.entities = 2
    /\ last.printed.created_relationships = 1 /\ last.printed.relationships = 2
    /\ Cardinality(nodes) = 2 /\ Cardinality(edges) = 1

\* C26: create_entity of an entity one of whose fields still holds a dict, and
\* whose id is not stored, returns true and stores one node that has every field
\* of the entity that survives serialization and not the field with the dict
C26_MapFieldDropped ==
    [][(/\ last'.op = "create_entity"
        /\ \E k \in DOMAIN last'.args[1] : last'.args[1][k].t = "dict"
        /\ NodesWithId(nodes, last'.args[1].id.v) = {}) =>
          LET entity == last'.args[1]
          IN  /\ last'.kind = "bool" /\ last'.ret = TRUE
              /\ \E n \in nodes' \ nodes :
                     /\ nodes' = nodes \cup {n}
                     /\ n.labels = {"Entity", entity.type.v}
                     /\ n.props = Survives(entity)
                     /\ \A k \in DOMAIN entity :
                            entity[k].t = "dict" => k \notin DOMAIN n.props
                     /\ \A k \in DOMAIN entity :
                            entity[k].t \notin {"dict", "none"} => k \in DOMAIN n.props]_vars

\* S2 with a dict in properties_json was created: its node has no
\* properties_json and has its name, hostname and timestamps
C26_Witness ==
    /\ last.op = "create_entity" /\ last.args[1] = S2d /\ last.ret = TRUE
    /\ \E n \in nodes :
           /\ n.props.id = PyStr("S2")
           /\ "properties_json" \notin DOMAIN n.props
           /\ n.props.name = PyStr("db") /\ n.props.hostname = PyStr("db-02")
           /\ n.props.updated_at = PyStr("2024-12-05T09:07:03.000250")

---------------------------------------------------------------------------
(* Properties of clear_database's two statements, checked under Spec *)

\* C27: clear_database deletes every relationship before it deletes a node: when
\* its second statement is about to run no relationship is stored, and no step
\* deletes a node that a stored relationship starts or ends at
C27_RelationshipsFirst ==
    [][/\ pc = "clear_nodes" => edges = {}
       /\ pc' = "clear_nodes" => (edges' = {} /\ nodes' = nodes)
       /\ \A n \in nodes \ nodes' :
              /\ Incident(edges, n.nid) = {}
              /\ Incident(edges', n.nid) = {}]_vars

\* clear_database is between its two statements on a store that was written to:
\* the relationships are gone and the three nodes are still stored
C27_Witness ==
    /\ pc = "clear_nodes" /\ last.op = "clear_database" /\ last.kind = "running"
    /\ wrote
    /\ edges = {}
    /\ Cardinality(nodes) = 3

---------------------------------------------------------------------------
(* Properties of the sessions, checked under SpecSession *)

\* C28: every method of the store closes the session it opened before it returns,
\* by a value, by a failure value or by an exception: outside the with-block of a
\* method no session is open, and inside it exactly one is
C28_SessionReleased ==
    /\ session.phase = "idle" => session.open = 0
    /\ session.phase = "body" => session.open = 1

\* get_topology_path raised the error of the store and its session is closed
C28_Witness ==
    /\ session.phase = "idle" /\ session.open = 0
    /\ last.op = "get_topology_path" /\ last.kind = "raise"

---------------------------------------------------------------------------
(* Properties of concurrent calls of create_entity, checked under SpecClients *)

\* Two calls that ran at the same time, for entities with the same id, have both
\* returned
ConcurrentSameId(c, d) ==
    /\ c # d
    /\ clients[c].phase = "returned" /\ clients[d].phase = "returned"
    /\ clients[c].overlap /\ clients[d].overlap
    /\ clients[c].entity.id = clients[d].entity.id

\* Exactly one of the two calls returned true and one node has the id
OneWinner(c, d) ==
    /\ clients[c].ret # clients[d].ret
    /\ Cardinality(NodesWithId(nodes, clients[c].entity.id.v)) = 1

\* C29 as stated: of two concurrent calls of create_entity with the same id exactly
\* one returns true, and the store ends with exactly one node with that id
C29_Original ==
    \A c, d \in Clients : ConcurrentSameId(c, d) => OneWinner(c, d)

\* C29, amended: when the uniqueness constraint on the Entity label was installed
\* before the two calls were made, exactly one of two concurrent calls of
\* create_entity with the same id returns true, and the store ends with exactly
\* one node with that id
C29_OneWinner ==
    \A c, d \in Clients :
        (ConcurrentSameId(c, d) /\ clients[c].guarded /\ clients[d].guarded) =>
            OneWinner(c, d)

\* Under the constraint, S1 and S1b were created by calls that ran at the same
\* time: the second caller's statement ran first and won
C29_Witness ==
    /\ ConcurrentSameId(1, 2)
    /\ clients[1].guarded /\ clients[2].guarded
    /\ clients[1].entity = S1 /\ clients[2].entity = S1b
    /\ clients[1].ret = FALSE /\ clients[2].ret = TRUE
    /\ \E n \in nodes : n.props.name = PyStr("db")

---------------------------------------------------------------------------
(* Properties of the mapping of a container to the network, checked under
   SpecFacade *)

\* The stored switches, none of which a path joins to the entity with this id
NoPathToASwitch(id) ==
    /\ MatchLabel(nodes, "NetworkSwitch") # {}
    /\ \A switch \in MatchLabel(nodes, "NetworkSwitch") :
           /\ MatchEntity(nodes, id) \cap MatchEntity(nodes, switch.props.id.v) = {}
           /\ PathRows(nodes, edges, id, switch.props.id.v) = {}

\* C30: get_container_to_network_mapping of a stored Container that no path joins
\* to the first stored NetworkSwitch raises nothing and returns a mapping whose
\* infrastructure stack is empty
C30_AbsentPathHandled ==
    (/\ last.op = "get_container_to_network_mapping"
     /\ \E n \in MatchEntity(nodes, last.args[1]) : Prop(n, "type") = PyStr("Container")
     /\ NoPathToASwitch(last.args[1])) =>
        /\ last.kind = "dict"
        /\ "infrastructure_stack" \in DOMAIN last.ret
        /\ last.ret.infrastructure_stack = <<>>

=============================================================================
